---- MODULE Spec2Model ----
(***************************************************************************)
(* A model of cervine::Cow<'a, T, R> (src/src/lib.rs): a value that is     *)
(* either Owned(T) or Borrowed(&'a R), with its inherent methods and trait *)
(* implementations.                                                        *)
(*                                                                         *)
(* The type parameters are instantiated as in the crate's examples:        *)
(* R = str, and T a string type that owns a buffer.  Two instantiations    *)
(* are covered, chosen once per behaviour (variable inst):                 *)
(*   "Into"    T: From<&str>  (e.g. String): conversion never fails, and   *)
(*             TryFrom<&str> is the blanket implementation over it;        *)
(*   "Checked" T: TryFrom<&str> only: a validated string that accepts      *)
(*             letters only and reports the position of the first other    *)
(*             character.                                                  *)
(***************************************************************************)
EXTENDS Integers, Sequences, FiniteSets, TLC

\* ------------------------------------------------------------------ bounds
\* Longest str considered: long enough for a str the validated T rejects.
MaxLen == 1

\* The characters a str is made of: one letter and one non-letter.
Chars == {"a", "1"}
Letters == {"a"}

\* The cows the caller holds (local variables) and the values it lends out.
Slots == {"x", "y"}
Refs == {"p", "q"}

Insts == {"Into", "Checked"}

VARIABLES
    inst,      \* which T the behaviour is about
    data,      \* the values owned elsewhere that a &'a R can point to
    data0,     \* data as it was when the behaviour began
    cows,      \* Slots -> the Cow held in that slot (NoCow: none)
    res,       \* the last call: what it was applied to and what it returned
    hist       \* Slots -> what has happened to the cow held there, kept under
               \* SpecHist only: "none" (no cow), "fresh" (never converted),
               \* "promoted" (converted by make_mut or try_make_mut), or
               \* "overwritten" (promoted, then overwritten by a clone_from
               \* from a Borrowed cow); "off" throughout under Spec

vars == <<inst, data, data0, cows, res, hist>>

\* ------------------------------------------------------------ value spaces
RVals == UNION {[1..n -> Chars] : n \in 0..MaxLen}

AllLetters(s) == \A k \in 1..Len(s) : s[k] \in Letters

\* What a T of the given instantiation may hold.
Accepts(i, s) == i = "Into" \/ AllLetters(s)

\* T: a value that owns its characters.
TVals(i) == {t \in [buf : RVals] : Accepts(i, t.buf)}

\* pub enum Cow<'a, T, R: ?Sized> { Owned(T), Borrowed(&'a R) }
Owned(t) == [tag |-> "Owned", t |-> t]
Borrowed(r) == [tag |-> "Borrowed", r |-> r]
NoCow == [tag |-> "None"]

CowVals(i) == {Owned(t) : t \in TVals(i)} \cup {Borrowed(r) : r \in Refs}

\* Result<_, _>
Ok(v) == [ok |-> TRUE, val |-> v]
Err(e) == [ok |-> FALSE, err |-> e]

\* ------------------------------------------------- capabilities of T and R
\* *r for a shared reference r: &'a R
Load(r) == data[r]

\* <T as Borrow<R>>::borrow: the characters the T owns, seen as a str
Borrow(t) == t.buf

\* <T as From<&R>>::from: a T that owns a copy of the characters
From(s) == [buf |-> s]

\* Position before the first non-letter of s.
RECURSIVE ValidUpTo(_)
ValidUpTo(s) ==
    IF s = <<>> \/ Head(s) \notin Letters THEN 0 ELSE 1 + ValidUpTo(Tail(s))

\* <T as TryFrom<&R>>::try_from
TryFrom(s) ==
    IF inst = "Into" THEN Ok(From(s))
    ELSE IF AllLetters(s) THEN Ok([buf |-> s])
    ELSE Err([kind |-> "NotALetter", valid_up_to |-> ValidUpTo(s)])

\* <T as Clone>::clone: a T that owns a copy of the characters
CloneT(t) == [buf |-> t.buf]

\* <T as Default>::default
DefaultT == [buf |-> <<>>]

Code(c) == IF c = "a" THEN 97 ELSE 49

\* <str as Hash>::hash: the bytes, then 0xff; the Hasher is the bytes written
RECURSIVE Bytes(_)
Bytes(s) == IF s = <<>> THEN <<>> ELSE <<Code(Head(s))>> \o Bytes(Tail(s))

HashR(s, state) == state \o Bytes(s) \o <<255>>

\* <str as Ord>::cmp: lexicographic on the bytes
RECURSIVE CmpR(_, _)
CmpR(s, u) ==
    IF s = <<>> /\ u = <<>> THEN "Equal"
    ELSE IF s = <<>> THEN "Less"
    ELSE IF u = <<>> THEN "Greater"
    ELSE IF Code(Head(s)) < Code(Head(u)) THEN "Less"
    ELSE IF Code(Head(s)) > Code(Head(u)) THEN "Greater"
    ELSE CmpR(Tail(s), Tail(u))

\* <str as PartialEq>::eq: same length and the same bytes
EqR(s, u) == Len(s) = Len(u) /\ \A k \in 1..Len(s) : Code(s[k]) = Code(u[k])

\* -------------------------------------------------------------------- serde
\* What a Deserializer can hand over: a str, or something that is no string.
Wires == {[kind |-> "str", v |-> s] : s \in RVals} \cup {[kind |-> "unit"]}

\* <str as Serialize>::serialize: Serializer::serialize_str
SerializeR(s) == Ok([kind |-> "str", v |-> s])

\* <T as Deserialize>::deserialize
DeserializeT(w) ==
    IF w.kind # "str" THEN Err([kind |-> "invalid_type"])
    ELSE IF inst = "Into" THEN Ok([buf |-> w.v])
    ELSE IF AllLetters(w.v) THEN Ok([buf |-> w.v])
    ELSE Err([kind |-> "custom", valid_up_to |-> ValidUpTo(w.v)])

\* <T as Deserialize>::deserialize_in_place: the T is overwritten with what
\* was deserialized, and left alone on an error.
\* [place: the T afterwards, ret: Result<(), D::Error>]
DeserializeInPlaceT(w, t) ==
    LET d == DeserializeT(w)
    IN  IF d.ok THEN [place |-> d.val, ret |-> Ok("unit")]
        ELSE [place |-> t, ret |-> d]

\* ------------------------------------------------------------- Cow: methods
is_borrowed(c) == c.tag = "Borrowed"

is_owned(c) == c.tag = "Owned"

\* [ret: the T, conv: conversions made]
into_owned(c) ==
    IF c.tag = "Owned" THEN [ret |-> c.t, conv |-> 0]
    ELSE [ret |-> From(Load(c.r)), conv |-> 1]

\* make_mut, converting whatever the variant (as self.as_ref().into() would).
make_mut_Reconverting(c) ==
    LET t == From(IF c.tag = "Owned" THEN Borrow(c.t) ELSE Load(c.r))
    IN  [self |-> Owned(t), place |-> [in |-> "self"], ret |-> t, conv |-> 1]

\* make_mut, promoting to a fresh T instead of the converted one.
make_mut_Forgetting(c) ==
    IF c.tag = "Owned"
        THEN [self |-> c, place |-> [in |-> "self"], ret |-> c.t, conv |-> 0]
        ELSE [self |-> Owned(DefaultT), place |-> [in |-> "self"],
              ret |-> DefaultT, conv |-> 1]

\* make_mut, handing out the borrowed value itself as mutable.
make_mut_Through(c) ==
    IF c.tag = "Owned"
        THEN [self |-> c, place |-> [in |-> "self"], ret |-> c.t, conv |-> 0]
        ELSE [self |-> c, place |-> [in |-> "referent", r |-> c.r],
              ret |-> From(Load(c.r)), conv |-> 0]

\* [self: the cow afterwards, place: where the returned &mut T points,
\*  ret: the T it points to, conv: conversions made]
make_mut(c) ==
    IF c.tag = "Owned"
        THEN [self |-> c, place |-> [in |-> "self"], ret |-> c.t, conv |-> 0]
        ELSE LET t == From(Load(c.r))
             IN  [self |-> Owned(t), place |-> [in |-> "self"], ret |-> t,
                  conv |-> 1]

\* try_into_owned, converting whatever the variant.
try_into_owned_Reconverting(c) ==
    [ret |-> TryFrom(IF c.tag = "Owned" THEN Borrow(c.t) ELSE Load(c.r)),
     conv |-> 1]

\* [ret: Result<T, T::Error>, conv]
try_into_owned(c) ==
    IF c.tag = "Owned" THEN [ret |-> Ok(c.t), conv |-> 0]
    ELSE [ret |-> TryFrom(Load(c.r)), conv |-> 1]

\* try_make_mut, overwriting self before the conversion's outcome is known.
try_make_mut_AssignsFirst(c) ==
    IF c.tag = "Owned"
        THEN [self |-> c, place |-> [in |-> "self"], ret |-> Ok(c.t),
              conv |-> 0]
        ELSE LET t == TryFrom(Load(c.r))
             IN  [self |-> Owned(IF t.ok THEN t.val ELSE DefaultT),
                  place |-> [in |-> IF t.ok THEN "self" ELSE "none"],
                  ret |-> IF t.ok THEN Ok(t.val) ELSE t, conv |-> 1]

\* [self, place, ret: Result<the T pointed to, T::Error>, conv]
try_make_mut(c) ==
    IF c.tag = "Owned"
        THEN [self |-> c, place |-> [in |-> "self"], ret |-> Ok(c.t),
              conv |-> 0]
        ELSE LET t == TryFrom(Load(c.r))
             IN  IF t.ok
                     THEN [self |-> Owned(t.val), place |-> [in |-> "self"],
                           ret |-> Ok(t.val), conv |-> 1]
                     ELSE [self |-> c, place |-> [in |-> "none"], ret |-> t,
                           conv |-> 1]

\* ------------------------------------------------------ Cow: trait methods
as_ref(c) == IF c.tag = "Owned" THEN Borrow(c.t) ELSE Load(c.r)

deref(c) == IF c.tag = "Owned" THEN Borrow(c.t) ELSE Load(c.r)

borrow(c) == IF c.tag = "Owned" THEN Borrow(c.t) ELSE Load(c.r)

\* Display: what is written to the Formatter
fmt(c) == Ok(as_ref(c))

\* clone, as a to_owned: the copy owns its value.
clone_Promoting(c) ==
    Owned(IF c.tag = "Owned" THEN CloneT(c.t) ELSE From(Load(c.r)))

clone(c) == IF c.tag = "Owned" THEN Owned(CloneT(c.t)) ELSE Borrowed(c.r)

\* Clone::clone_from, the provided method: *self = source.clone()
clone_from(c, source) == clone(source)

default == Owned(DefaultT)

\* PartialEq<R>
eq_R(c, other) == EqR(as_ref(c), other)

\* PartialEq as #[derive(PartialEq)] gives it: variant by variant.
eq_Derived(c, other) ==
    /\ c.tag = other.tag
    /\ IF c.tag = "Owned" THEN EqR(Borrow(c.t), Borrow(other.t))
       ELSE EqR(Load(c.r), Load(other.r))

\* PartialEq
eq(c, other) == EqR(as_ref(c), as_ref(other))

\* PartialOrd<R>
partial_cmp_R(c, other) == CmpR(as_ref(c), other)

\* PartialOrd
partial_cmp(c, other) == CmpR(as_ref(c), as_ref(other))

\* Ord
cmp(c, other) == CmpR(as_ref(c), as_ref(other))

\* Hash as #[derive(Hash)] gives it: the discriminant, then the payload.
hash_Derived(c, state) ==
    HashR(IF c.tag = "Owned" THEN Borrow(c.t) ELSE Load(c.r),
          state \o <<IF c.tag = "Owned" THEN 0 ELSE 1>>)

\* Hash: the Hasher after the call
hash(c, state) == HashR(as_ref(c), state)

\* Serialize
serialize(c) == SerializeR(as_ref(c))

\* Deserialize::deserialize: Result<Cow, D::Error>
deserialize(w) ==
    LET d == DeserializeT(w) IN IF d.ok THEN Ok(Owned(d.val)) ELSE d

\* deserialize_in_place, falling back to a borrowed value when T fails.
deserialize_in_place_Demoting(w, c) ==
    IF c.tag = "Owned"
        THEN LET d == DeserializeInPlaceT(w, c.t)
             IN  [self |-> IF d.ret.ok THEN Owned(d.place)
                           ELSE Borrowed(CHOOSE r \in Refs : TRUE),
                  ret |-> d.ret]
        ELSE LET d == deserialize(w)
             IN  IF d.ok THEN [self |-> d.val, ret |-> Ok("unit")]
                 ELSE [self |-> c, ret |-> d]

\* deserialize_in_place, replacing a borrowed place whatever the outcome.
deserialize_in_place_Defaulting(w, c) ==
    IF c.tag = "Owned"
        THEN LET d == DeserializeInPlaceT(w, c.t)
             IN  [self |-> Owned(d.place), ret |-> d.ret]
        ELSE LET d == deserialize(w)
             IN  [self |-> IF d.ok THEN d.val ELSE default,
                  ret |-> IF d.ok THEN Ok("unit") ELSE d]

\* Deserialize::deserialize_in_place: [self: the place afterwards, ret]
deserialize_in_place(w, c) ==
    IF c.tag = "Owned"
        THEN LET d == DeserializeInPlaceT(w, c.t)
             IN  [self |-> Owned(d.place), ret |-> d.ret]
        ELSE LET d == deserialize(w)
             IN  IF d.ok THEN [self |-> d.val, ret |-> Ok("unit")]
                 ELSE [self |-> c, ret |-> d]

\* ------------------------------------------------------------------- state
\* The record of a call: the method, the slot of self, the slot of the other
\* cow (or "-"), self before the call, the argument, what was returned and
\* how many &R-to-T conversions the call made.
Call(op, a, b, before, arg, ret, conv) ==
    [op |-> op, a |-> a, b |-> b, before |-> before, arg |-> arg,
     ret |-> ret, conv |-> conv]

Live(s) == cows[s] # NoCow

Init ==
    /\ inst \in Insts
    /\ data \in [Refs -> RVals]
    /\ data0 = data
    /\ cows = [s \in Slots |-> NoCow]
    /\ res = Call("init", "-", "-", NoCow, "-", "-", 0)
    /\ hist = [s \in Slots |-> "off"]

\* The same with the history of each cow kept, for the T that make_mut and
\* into_owned are defined for (impl<'a, T: From<&'a R>, R: ?Sized>), whose
\* conversion never fails; the values lent out are copies of one str, what
\* is converted having no part in how often it is.
InitHist ==
    /\ inst = "Into"
    /\ data \in {[r \in Refs |-> v] : v \in RVals}
    /\ data0 = data
    /\ cows = [s \in Slots |-> NoCow]
    /\ res = Call("init", "-", "-", NoCow, "-", "-", 0)
    /\ hist = [s \in Slots |-> "none"]

\* The history of the cow in slot s becomes h.
Mark(s, h) == hist' = IF hist[s] = "off" THEN hist ELSE [hist EXCEPT ![s] = h]

\* A make_mut or try_make_mut on the cow in slot s has returned; converted:
\* it converted the borrowed value and the cow now owns the result.
Promoted(s, converted) ==
    hist' = IF hist[s] # "off" /\ converted
                THEN [hist EXCEPT ![s] = "promoted"]
                ELSE hist

\* A call that only reads self.
Reads(op, a, b, arg, ret) ==
    /\ res' = Call(op, a, b, cows[a], arg, ret, 0)
    /\ UNCHANGED <<inst, data, data0, cows, hist>>

\* ------------------------------------------------------------ construction
\* let x = Cow::Owned(t);
NewOwned(s, t) ==
    /\ ~Live(s)
    /\ cows' = [cows EXCEPT ![s] = Owned(t)]
    /\ res' = Call("Owned", s, "-", NoCow, t, "-", 0)
    /\ UNCHANGED <<inst, data, data0>>
    /\ Mark(s, "fresh")

\* let x = Cow::Borrowed(&data[r]);
NewBorrowed(s, r) ==
    /\ ~Live(s)
    /\ cows' = [cows EXCEPT ![s] = Borrowed(r)]
    /\ res' = Call("Borrowed", s, "-", NoCow, r, "-", 0)
    /\ UNCHANGED <<inst, data, data0>>
    /\ Mark(s, "fresh")

\* let x = Cow::default();
Default(s) ==
    /\ ~Live(s)
    /\ cows' = [cows EXCEPT ![s] = default]
    /\ res' = Call("default", s, "-", NoCow, "-", default, 0)
    /\ UNCHANGED <<inst, data, data0>>
    /\ Mark(s, "fresh")

\* let y = x.clone();
Clone(s, d) ==
    /\ Live(s) /\ ~Live(d)
    /\ cows' = [cows EXCEPT ![d] = clone(cows[s])]
    /\ res' = Call("clone", s, d, cows[s], "-", clone(cows[s]), 0)
    /\ UNCHANGED <<inst, data, data0>>
    /\ Mark(d, "fresh")

\* x.clone_from(&y);
CloneFrom(s, d) ==
    /\ s # d /\ Live(s) /\ Live(d)
    /\ cows' = [cows EXCEPT ![s] = clone_from(cows[s], cows[d])]
    /\ res' = Call("clone_from", s, d, NoCow, "-", "-", 0)
    /\ UNCHANGED <<inst, data, data0>>
    /\ Mark(s, IF hist[s] = "promoted" /\ is_borrowed(cows[d])
                   THEN "overwritten" ELSE hist[s])

\* x goes out of scope
Drop(s) ==
    /\ Live(s)
    /\ cows' = [cows EXCEPT ![s] = NoCow]
    /\ res' = Call("drop", s, "-", NoCow, "-", "-", 0)
    /\ UNCHANGED <<inst, data, data0>>
    /\ Mark(s, "none")

\* ---------------------------------------------------------------- promotion
\* x.into_owned(): x is moved out of
IntoOwned(s) ==
    /\ inst = "Into" /\ Live(s)
    /\ LET m == into_owned(cows[s])
       IN  res' = Call("into_owned", s, "-", cows[s], "-", m.ret, m.conv)
    /\ cows' = [cows EXCEPT ![s] = NoCow]
    /\ UNCHANGED <<inst, data, data0>>
    /\ Mark(s, "none")

\* x.try_into_owned(): x is moved out of, whatever the outcome
TryIntoOwned(s) ==
    /\ Live(s)
    /\ LET m == try_into_owned(cows[s])
       IN  res' = Call("try_into_owned", s, "-", cows[s], "-", m.ret, m.conv)
    /\ cows' = [cows EXCEPT ![s] = NoCow]
    /\ UNCHANGED <<inst, data, data0>>
    /\ Mark(s, "none")

\* x.make_mut();
MakeMut(s) ==
    /\ inst = "Into" /\ Live(s)
    /\ LET m == make_mut(cows[s])
       IN  /\ cows' = [cows EXCEPT ![s] = m.self]
           /\ res' = Call("make_mut", s, "-", cows[s], "-", m.ret, m.conv)
    /\ UNCHANGED <<inst, data, data0>>
    /\ Promoted(s, make_mut(cows[s]).conv > 0)

\* x.try_make_mut()
TryMakeMut(s) ==
    /\ Live(s)
    /\ LET m == try_make_mut(cows[s])
       IN  /\ cows' = [cows EXCEPT ![s] = m.self]
           /\ res' = Call("try_make_mut", s, "-", cows[s], "-", m.ret, m.conv)
    /\ UNCHANGED <<inst, data, data0>>
    /\ Promoted(s, try_make_mut(cows[s]).conv > 0
                      /\ try_make_mut(cows[s]).ret.ok)

\* A store of t through a &mut T: it lands where the reference points.
Store(s, self, place, t) ==
    /\ cows' = [cows EXCEPT ![s] = IF place.in = "self" THEN Owned(t) ELSE self]
    /\ data' = IF place.in = "referent"
                   THEN [data EXCEPT ![place.r] = Borrow(t)]
                   ELSE data

\* *x.make_mut() = t;
MakeMutWrite(s, t) ==
    /\ inst = "Into" /\ Live(s)
    /\ LET m == make_mut(cows[s])
       IN  /\ Store(s, m.self, m.place, t)
           /\ res' = Call("make_mut_write", s, "-", cows[s], t, "-", m.conv)
    /\ UNCHANGED <<inst, data0>>
    /\ Promoted(s, make_mut(cows[s]).conv > 0)

\* *x.try_make_mut()? = t;
TryMakeMutWrite(s, t) ==
    /\ Live(s)
    /\ LET m == try_make_mut(cows[s])
       IN  /\ Store(s, m.self, m.place, t)
           /\ res' = Call("try_make_mut_write", s, "-", cows[s], t, m.ret,
                          m.conv)
    /\ UNCHANGED <<inst, data0>>
    /\ Promoted(s, try_make_mut(cows[s]).conv > 0
                      /\ try_make_mut(cows[s]).ret.ok)

\* -------------------------------------------------------------- reading
IsBorrowed(s) == Live(s) /\ Reads("is_borrowed", s, "-", "-", is_borrowed(cows[s]))

IsOwned(s) == Live(s) /\ Reads("is_owned", s, "-", "-", is_owned(cows[s]))

AsRef(s) == Live(s) /\ Reads("as_ref", s, "-", "-", as_ref(cows[s]))

Deref(s) == Live(s) /\ Reads("deref", s, "-", "-", deref(cows[s]))

BorrowR(s) == Live(s) /\ Reads("borrow", s, "-", "-", borrow(cows[s]))

Fmt(s) == Live(s) /\ Reads("fmt", s, "-", "-", fmt(cows[s]))

\* x == *r for a value owned elsewhere
EqBare(s, r) == Live(s) /\ Reads("eq_R", s, "-", r, eq_R(cows[s], Load(r)))

Eq(s, d) ==
    Live(s) /\ Live(d) /\ Reads("eq", s, d, "-", eq(cows[s], cows[d]))

PartialCmpBare(s, r) ==
    /\ Live(s)
    /\ Reads("partial_cmp_R", s, "-", r, partial_cmp_R(cows[s], Load(r)))

PartialCmp(s, d) ==
    /\ Live(s) /\ Live(d)
    /\ Reads("partial_cmp", s, d, "-", partial_cmp(cows[s], cows[d]))

Cmp(s, d) ==
    Live(s) /\ Live(d) /\ Reads("cmp", s, d, "-", cmp(cows[s], cows[d]))

Hash(s) == Live(s) /\ Reads("hash", s, "-", "-", hash(cows[s], <<>>))

Serialize(s) == Live(s) /\ Reads("serialize", s, "-", "-", serialize(cows[s]))

\* ------------------------------------------------------------ deserializing
\* let x: Cow<T, R> = Deserialize::deserialize(d)?;
Deserialize(s, w) ==
    /\ ~Live(s)
    /\ LET d == deserialize(w)
       IN  /\ cows' = [cows EXCEPT ![s] = IF d.ok THEN d.val ELSE NoCow]
           /\ res' = Call("deserialize", s, "-", NoCow, w, d, 0)
    /\ UNCHANGED <<inst, data, data0>>
    /\ Mark(s, IF deserialize(w).ok THEN "fresh" ELSE "none")

\* Deserialize::deserialize_in_place(d, &mut x)
DeserializeInPlace(s, w) ==
    /\ Live(s)
    /\ LET d == deserialize_in_place(w, cows[s])
       IN  /\ cows' = [cows EXCEPT ![s] = d.self]
           /\ res' = Call("deserialize_in_place", s, "-", cows[s], w, d.ret, 0)
    /\ UNCHANGED <<inst, data, data0>>
    /\ UNCHANGED hist

Next ==
    \/ \E s \in Slots, t \in TVals(inst) : NewOwned(s, t)
    \/ \E s \in Slots, r \in Refs : NewBorrowed(s, r)
    \/ \E s \in Slots : Default(s)
    \/ \E s, d \in Slots : Clone(s, d)
    \/ \E s, d \in Slots : CloneFrom(s, d)
    \/ \E s \in Slots : Drop(s)
    \/ \E s \in Slots : IntoOwned(s)
    \/ \E s \in Slots : TryIntoOwned(s)
    \/ \E s \in Slots : MakeMut(s)
    \/ \E s \in Slots : TryMakeMut(s)
    \/ \E s \in Slots, t \in TVals(inst) : MakeMutWrite(s, t)
    \/ \E s \in Slots, t \in TVals(inst) : TryMakeMutWrite(s, t)
    \/ \E s \in Slots : IsBorrowed(s)
    \/ \E s \in Slots : IsOwned(s)
    \/ \E s \in Slots : AsRef(s)
    \/ \E s \in Slots : Deref(s)
    \/ \E s \in Slots : BorrowR(s)
    \/ \E s \in Slots : Fmt(s)
    \/ \E s \in Slots, r \in Refs : EqBare(s, r)
    \/ \E s, d \in Slots : Eq(s, d)
    \/ \E s \in Slots, r \in Refs : PartialCmpBare(s, r)
    \/ \E s, d \in Slots : PartialCmp(s, d)
    \/ \E s, d \in Slots : Cmp(s, d)
    \/ \E s \in Slots : Hash(s)
    \/ \E s \in Slots : Serialize(s)
    \/ \E s \in Slots, w \in Wires : Deserialize(s, w)
    \/ \E s \in Slots, w \in Wires : DeserializeInPlace(s, w)

Spec == Init /\ [][Next]_vars

SpecHist == InitHist /\ [][Next]_vars

\* ------------------------------------------------------------ properties
\* What a cow stands for, read off its payload.
Content(c) == IF c.tag = "Owned" THEN c.t.buf ELSE data[c.r]

Promotions == {"make_mut", "try_make_mut", "make_mut_write",
               "try_make_mut_write"}

\* C1: a try_make_mut on a Borrowed cow whose conversion fails returns the
\* conversion's error and leaves the cow as it was: still Borrowed, still the
\* same reference, still the same view.
C1_FailedTryMakeMutChangesNothing ==
    (/\ res.op = "try_make_mut"
     /\ is_borrowed(res.before)
     /\ ~AllLetters(data0[res.before.r]) /\ inst = "Checked")
    => /\ ~res.ret.ok
       /\ res.ret = TryFrom(data0[res.before.r])
       /\ is_borrowed(cows[res.a])
       /\ cows[res.a] = res.before
       /\ as_ref(cows[res.a]) = data0[res.before.r]

C1_Witness ==
    /\ res.op = "try_make_mut"
    /\ is_borrowed(res.before)
    /\ ~res.ret.ok
    /\ is_borrowed(cows[res.a])

\* C2, as claimed: no step takes a cow from Owned to Borrowed.
C2_OwnedStaysOwned ==
    [][\A s \in Slots :
          (is_owned(cows[s]) /\ cows'[s] # NoCow) => is_owned(cows'[s])]_vars

\* C2, amended: a step that takes a cow from Owned to Borrowed is a
\* clone_from on it whose source is Borrowed, and the cow then holds the
\* source's reference; every other step leaves an Owned cow Owned.
C2_OwnedStaysOwnedButForCloneFrom ==
    [][\A s \in Slots :
          (is_owned(cows[s]) /\ cows'[s] # NoCow /\ ~is_owned(cows'[s]))
          => /\ res'.op = "clone_from"
             /\ res'.a = s
             /\ is_borrowed(cows[res'.b])
             /\ cows'[s] = cows[res'.b]]_vars

C2_Witness ==
    /\ res.op = "deserialize_in_place"
    /\ is_owned(res.before)
    /\ ~res.ret.ok
    /\ is_owned(cows[res.a])

\* C3, as claimed: a step that takes a cow from Borrowed to Owned is a
\* make_mut or a try_make_mut on it.
C3_OnlyMakeMutPromotes ==
    [][\A s \in Slots :
          (is_borrowed(cows[s]) /\ is_owned(cows'[s]))
          => (res'.op \in Promotions /\ res'.a = s)]_vars

\* C3, amended: a step that takes a cow from Borrowed to Owned is a make_mut,
\* a try_make_mut that succeeded, a deserialize_in_place that succeeded, or
\* a clone_from whose source is Owned, on that cow.
C3_OnlyPromotionOrDeserializeInPlace ==
    [][\A s \in Slots :
          (is_borrowed(cows[s]) /\ is_owned(cows'[s]))
          => /\ res'.a = s
             /\ \/ res'.op \in {"make_mut", "make_mut_write"}
                \/ res'.op \in {"try_make_mut", "try_make_mut_write"}
                   /\ res'.ret.ok
                \/ res'.op = "deserialize_in_place" /\ res'.ret.ok
                \/ res'.op = "clone_from" /\ is_owned(cows[res'.b])]_vars

C3_Witness ==
    /\ res.op = "deserialize_in_place"
    /\ is_borrowed(res.before)
    /\ is_owned(cows[res.a])

\* What a promotion call does, whatever came before it: it converts exactly
\* when the cow is Borrowed at the call; an Owned cow is passed through as it
\* is, its payload returned; after make_mut the cow is Owned; and make_mut
\* called twice in a row on a Borrowed cow converts once, the second call
\* returning the payload the first one made.
ConvertsOnlyWhenBorrowed ==
    /\ res.op \in {"make_mut", "try_make_mut", "into_owned", "try_into_owned"}
       => /\ res.conv = IF is_borrowed(res.before) THEN 1 ELSE 0
          /\ (res.op \in {"make_mut", "try_make_mut"} /\ is_owned(res.before))
             => cows[res.a] = res.before
          /\ (res.op = "make_mut" /\ is_owned(res.before))
             => res.ret = res.before.t
          /\ (res.op = "into_owned" /\ is_owned(res.before))
             => res.ret = res.before.t
          /\ res.op = "make_mut" => is_owned(cows[res.a])
    /\ \A s \in Slots :
          (inst = "Into" /\ is_borrowed(cows[s]))
          => LET first == make_mut(cows[s])
                 second == make_mut(first.self)
             IN  /\ first.conv + second.conv = 1
                 /\ second.self = first.self
                 /\ second.ret = first.self.t

\* C4, as claimed: promotion occurs at most once per container: a make_mut or
\* try_make_mut on a cow that one of them has converted before converts
\* nothing.
C4_PromotedAtMostOnce ==
    [][\A s \in Slots :
          (/\ hist[s] \in {"promoted", "overwritten"}
           /\ res'.op \in Promotions
           /\ res'.a = s)
          => res'.conv = 0]_vars

\* C4, amended: a promotion call converts exactly when the cow is Borrowed at
\* the call, and a cow that make_mut or try_make_mut has converted stays
\* Owned, every later make_mut and try_make_mut on it passing it through
\* with no conversion, until a clone_from from a Borrowed cow overwrites it;
\* only then can it be converted again.
C4_PromotedOnceUntilOverwritten ==
    /\ []ConvertsOnlyWhenBorrowed
    /\ [][\A s \in Slots :
             /\ hist[s] = "promoted" => is_owned(cows[s])
             /\ (hist[s] = "promoted" /\ res'.op \in Promotions /\ res'.a = s)
                => /\ res'.conv = 0
                   /\ res'.op \in {"make_mut", "try_make_mut"}
                      => cows'[s] = cows[s]
                   /\ res'.op = "make_mut" => res'.ret = cows[s].t
                   /\ res'.op = "try_make_mut" => res'.ret = Ok(cows[s].t)
             /\ (hist[s] \in {"promoted", "overwritten"}
                 /\ res'.op \in Promotions /\ res'.a = s /\ res'.conv > 0)
                => (hist[s] = "overwritten" /\ is_borrowed(cows[s]))]_vars

\* An initially Borrowed cow that make_mut converted has had its second
\* make_mut, which passed it through.
C4_Witness ==
    /\ res.op = "make_mut"
    /\ hist[res.a] = "promoted"
    /\ is_owned(res.before)
    /\ res.conv = 0
    /\ cows[res.a] = res.before

\* C5: two cows are equal exactly when what they stand for is equal, in any
\* mix of variants, and a cow equals a bare value exactly when it stands for
\* an equal one; so Owned(v) and Borrowed(&v) equal each other and v.
C5_EqualityIgnoresVariant ==
    /\ \A s, d \in Slots :
          (Live(s) /\ Live(d))
          => (eq(cows[s], cows[d]) <=> Content(cows[s]) = Content(cows[d]))
    /\ \A s \in Slots, r \in Refs :
          Live(s) => (eq_R(cows[s], data[r]) <=> Content(cows[s]) = data[r])
    /\ \A r \in Refs :
          /\ eq(Owned([buf |-> data[r]]), Borrowed(r))
          /\ eq(Borrowed(r), Owned([buf |-> data[r]]))
          /\ eq_R(Owned([buf |-> data[r]]), data[r])
          /\ eq_R(Borrowed(r), data[r])
    /\ res.op = "eq"
       => (res.ret <=> Content(cows[res.a]) = Content(cows[res.b]))

C5_Witness ==
    /\ res.op = "eq"
    /\ res.ret = TRUE
    /\ is_owned(cows[res.a])
    /\ is_borrowed(cows[res.b])

\* C6: cows that are equal hash alike, from any state of the Hasher and in
\* any mix of variants.
C6_EqualCowsHashAlike ==
    \A s, d \in Slots :
        (Live(s) /\ Live(d) /\ eq(cows[s], cows[d]))
        => \A h \in {<<>>, <<0>>, <<1>>} :
              hash(cows[s], h) = hash(cows[d], h)

C6_Witness ==
    /\ res.op = "hash"
    /\ \E d \in Slots :
          /\ Live(d)
          /\ cows[d].tag # cows[res.a].tag
          /\ eq(cows[res.a], cows[d])
          /\ res.ret = hash(cows[d], <<>>)

\* C7: the clone of a Borrowed cow is Borrowed with the same reference, the
\* clone of an Owned cow is Owned with a clone of the payload, and the cow
\* that was cloned is as it was.
C7_CloneDoesNotPromote ==
    res.op = "clone"
    => /\ is_borrowed(res.before)
          => (is_borrowed(cows[res.b]) /\ cows[res.b].r = res.before.r)
       /\ is_owned(res.before)
          => (is_owned(cows[res.b]) /\ cows[res.b].t = CloneT(res.before.t))
       /\ cows[res.a] = res.before
       /\ res.ret = cows[res.b]

C7_Witness ==
    /\ res.op = "clone"
    /\ is_borrowed(res.before)
    /\ is_borrowed(cows[res.b])

\* C8: into_owned on a Borrowed cow returns the conversion of the value it
\* refers to, which reads back equal to it; on an Owned cow it returns the
\* payload; and after make_mut the cow is Owned with the view it had before.
C8_PromotionPreservesValue ==
    /\ (res.op = "into_owned" /\ is_borrowed(res.before))
       => /\ res.ret = From(data0[res.before.r])
          /\ EqR(Borrow(res.ret), data0[res.before.r])
    /\ (res.op = "into_owned" /\ is_owned(res.before))
       => res.ret = res.before.t
    /\ res.op = "make_mut"
       => /\ is_owned(cows[res.a])
          /\ EqR(as_ref(cows[res.a]),
                 IF is_owned(res.before) THEN res.before.t.buf
                 ELSE data0[res.before.r])
          /\ res.ret = cows[res.a].t

C8_Witness ==
    /\ res.op = "make_mut"
    /\ is_borrowed(res.before)
    /\ is_owned(cows[res.a])
    /\ data0[res.before.r] # <<>>

\* C9: try_into_owned and try_make_mut fail exactly on a Borrowed cow whose
\* value the conversion rejects, with the conversion's error; on an Owned cow
\* they succeed with the payload and convert nothing.
C9_TryFailsIffConversionFails ==
    res.op \in {"try_into_owned", "try_make_mut"}
    => /\ ~res.ret.ok
          <=> (/\ is_borrowed(res.before)
               /\ inst = "Checked"
               /\ ~AllLetters(data0[res.before.r]))
       /\ ~res.ret.ok
          => res.ret = Err([kind |-> "NotALetter",
                            valid_up_to |-> ValidUpTo(data0[res.before.r])])
       /\ is_owned(res.before)
          => (res.ret = Ok(res.before.t) /\ res.conv = 0)

C9_Witness ==
    /\ res.op = "try_into_owned"
    /\ is_borrowed(res.before)
    /\ ~res.ret.ok

\* C10: the values that cows borrow are never changed, whatever is written
\* through the references that make_mut and try_make_mut return.
C10_BorrowedDataUntouched == data = data0

C10_Witness ==
    /\ res.op = "make_mut_write"
    /\ is_borrowed(res.before)
    /\ is_owned(cows[res.a])
    /\ Borrow(cows[res.a].t) # data0[res.before.r]
====
